---- MODULE Spec2Model ----
(***************************************************************************)
(* Model of src/app.py: the Slack event handlers _cache_bot_id and         *)
(* on_message, the File Retrieval Adapter download_slack_file and the      *)
(* Issue Filing Adapter create_github_issue.                               *)
(*                                                                         *)
(* Python strings are modelled as sequences of one-character strings, so   *)
(* that strip, lower, startswith, endswith, "in", replace and split are    *)
(* computed character by character as str computes them.  None and the     *)
(* empty string are both the empty sequence: the code only ever tests     *)
(* them for truthiness or replaces None by "" (lines 88, 157, 158).        *)
(*                                                                         *)
(* Handler invocations run on the listener thread pool of slack_bolt, so   *)
(* several may be in flight at once.  An invocation is cut into steps at   *)
(* its blocking calls next to the shared globals BOT_USER_ID and           *)
(* INDEXED_FILE_IDS; the code between two cuts is one atomic step.         *)
(*                                                                         *)
(* Every event carries a user and a channel, and auth_test returns the     *)
(* bot identity; each other collaborator call (delete_all_embeddings,      *)
(* create_github_issue, files_info, download_slack_file, write_bytes,      *)
(* users_info, index_slack_file_bytes, answer_query, chat_postMessage)     *)
(* either returns or raises.                                               *)
(***************************************************************************)
EXTENDS Integers, Sequences, FiniteSets, TLC

(* ------------------------------ bounds -------------------------------- *)
\* handler invocations that may be in flight at the same time
NumProcs == 2
\* events delivered over one process run
MaxEvents == 3
\* events delivered over a run of the sequential specification
MaxSeqEvents == 2

Procs == 1..NumProcs

(* ------------------------- Python str operations ----------------------- *)
SP == <<" ">>
PIPE == <<"|">>
WhiteSpace == {" "}

\* str.lower() on the letters the inputs use
LowerOf ==
  ("A" :> "a") @@ ("B" :> "b") @@ ("C" :> "c") @@ ("D" :> "d") @@ ("E" :> "e") @@
  ("F" :> "f") @@ ("H" :> "h") @@ ("I" :> "i") @@ ("M" :> "m") @@ ("L" :> "l") @@ ("O" :> "o") @@ ("P" :> "p") @@
  ("S" :> "s") @@ ("T" :> "t") @@ ("U" :> "u") @@ ("X" :> "x")

LowerChar(c) == IF c \in DOMAIN LowerOf THEN LowerOf[c] ELSE c

Lower(s) == [i \in 1..Len(s) |-> LowerChar(s[i])]

\* s[n:]
DropFirst(s, n) == IF n >= Len(s) THEN <<>> ELSE SubSeq(s, n + 1, Len(s))

RECURSIVE LStrip(_)
LStrip(s) ==
  IF s # <<>> /\ s[1] \in WhiteSpace THEN LStrip(Tail(s)) ELSE s

RECURSIVE RStrip(_)
RStrip(s) ==
  IF s # <<>> /\ s[Len(s)] \in WhiteSpace THEN RStrip(SubSeq(s, 1, Len(s) - 1)) ELSE s

\* str.strip()
Strip(s) == RStrip(LStrip(s))

\* s.startswith(p)
StartsWith(s, p) == Len(p) <= Len(s) /\ SubSeq(s, 1, Len(p)) = p

\* s.endswith(p)
EndsWith(s, p) == Len(p) <= Len(s) /\ SubSeq(s, Len(s) - Len(p) + 1, Len(s)) = p

\* positions at which sub occurs in s
Occurrences(sub, s) ==
  {i \in 1..(Len(s) - Len(sub) + 1) : SubSeq(s, i, i + Len(sub) - 1) = sub}

\* sub in s
Contains(sub, s) == Occurrences(sub, s) # {}

Min(S) == CHOOSE x \in S : \A y \in S : x <= y

\* s.replace(sub, "", 1)
RemoveFirst(s, sub) ==
  IF sub = <<>> \/ ~Contains(sub, s) THEN s
  ELSE LET i == Min(Occurrences(sub, s))
       IN  SubSeq(s, 1, i - 1) \o SubSeq(s, i + Len(sub), Len(s))

\* s.rsplit(sep, 1): a split at the last separator
SplitLast(s, sep) ==
  LET i == CHOOSE k \in Occurrences(sep, s) : \A j \in Occurrences(sep, s) : j <= k
  IN  <<SubSeq(s, 1, i - 1), SubSeq(s, i + 1, Len(s))>>

\* s.split(sep, 1) for a one-character sep that occurs in s
SplitFirst(s, sep) ==
  LET i == Min(Occurrences(sep, s))
  IN  <<SubSeq(s, 1, i - 1), SubSeq(s, i + 1, Len(s))>>

(* ------------------------------ literals ------------------------------- *)
\* "issue", line 100
ISSUE == <<"i", "s", "s", "u", "e">>
\* "delete", line 91
DELETE == <<"d", "e", "l", "e", "t", "e">>
\* "@BoltApp issue" and "@BoltApp", lines 101, 104, 105
AT_BOLTAPP_ISSUE == <<"@", "B", "o", "l", "t", "A", "p", "p", " ", "i", "s", "s", "u", "e">>
AT_BOLTAPP == <<"@", "B", "o", "l", "t", "A", "p", "p">>

\* f"<@{BOT_USER_ID}>", lines 91, 102, 107
Mention(id) == <<"<", "@">> \o id \o <<">">>

\* f"Created via Slack by <@{event['user']}> in channel {channel}.", line 126
Attribution(user, channel) ==
  <<"C", "r", "e", "a", "t", "e", "d", " ", "v", "i", "a", " ", "S", "l", "a", "c", "k", " ", "b", "y", " ", "<", "@">> \o user
  \o <<">", " ", "i", "n", " ", "c", "h", "a", "n", "n", "e", "l", " ">> \o channel \o <<".">>

\* a set of extensions that lets text files through
AllowedWithTxt == {<<".", "p", "d", "f">>, <<".", "d", "o", "c", "x">>, <<".", "t", "x", "t">>}

\* ALLOWED_EXTENSIONS, line 19
ALLOWED_EXTENSIONS == {<<".", "p", "d", "f">>, <<".", "d", "o", "c", "x">>}

(* ------------------------------- inputs -------------------------------- *)
\* The identities auth_test may report.  Slack ids are upper-case; the
\* lower-case one stands for an identity that str.lower() leaves alone.
BotIds == {<<"U", "1">>, <<"u", "1">>}

\* the same mention typed in the other letter case
OtherCase(id) == IF id = Lower(id) THEN <<"U", "1">> ELSE Lower(id)

\* issue titles and bodies the texts use
TitleT == <<"T">>
BodyB == <<"B">>
BodyC == <<"C">>

\* texts of message events, for a bot identity b
QueryTexts == {<<"h", "i">>, DELETE}
DeleteTexts(b) ==
  { Mention(b) \o SP \o DELETE,
    SP \o Mention(b) \o SP \o SP \o <<"D", "e", "L", "E", "T", "E">> \o SP,
    Mention(b) \o SP \o <<"D", "E", "L", "E", "T", "E">>,
    Mention(OtherCase(b)) \o SP \o DELETE,
    DELETE \o SP \o Mention(b),
    ISSUE \o SP \o Mention(b) \o SP \o DELETE }
IssueTexts(b) ==
  { ISSUE \o SP \o TitleT \o SP \o PIPE \o SP \o BodyB,
    ISSUE \o SP \o TitleT \o PIPE \o BodyB \o PIPE \o BodyC,
    ISSUE,
    ISSUE \o SP \o SP,
    ISSUE \o SP \o PIPE \o BodyB,
    ISSUE \o SP \o TitleT \o SP \o PIPE,
    <<"I", "S", "S", "U", "E">> \o SP \o TitleT,
    ISSUE \o <<"s">>,
    AT_BOLTAPP_ISSUE \o SP \o TitleT,
    Mention(b) \o SP \o ISSUE \o SP \o TitleT,
    Mention(b) \o SP \o ISSUE \o SP \o TitleT \o SP \o PIPE \o SP \o BodyB,
    Mention(b) \o SP \o ISSUE }
EmptyTexts == {<<>>, SP \o SP}

AllTexts(b) == EmptyTexts \cup QueryTexts \cup DeleteTexts(b) \cup IssueTexts(b)

\* file ids; NoId is a file reference without an "id" (line 148)
F1 == <<"F", "1">>
F2 == <<"F", "2">>
F3 == <<"F", "3">>
F4 == <<"F", "4">>
F5 == <<"F", "5">>
NoId == <<>>
FileIds == {F1, F2, F3, F4, F5}

\* what files_info reports for each id (lines 154-158); <<>> is a missing field
FileObj(f) ==
  CASE f = F1 -> [name |-> <<"a", ".", "p", "d", "f">>, title |-> <<>>,
                  url_private_download |-> <<"d">>, url_private |-> <<"p">>]
    [] f = F2 -> [name |-> <<>>, title |-> <<"B", ".", "D", "O", "C", "X">>,
                  url_private_download |-> <<>>, url_private |-> <<"p">>]
    [] f = F3 -> [name |-> <<"r", ".", "t", "x", "t">>, title |-> <<>>,
                  url_private_download |-> <<"d">>, url_private |-> <<>>]
    [] f = F4 -> [name |-> <<"a", ".", "p", "d", "f">>, title |-> <<>>,
                  url_private_download |-> <<>>, url_private |-> <<>>]
    [] OTHER  -> [name |-> <<>>, title |-> <<>>,
                  url_private_download |-> <<"d">>, url_private |-> <<>>]

\* a or b on strings
Or(a, b) == IF a # <<>> THEN a ELSE b

\* file_obj.get("url_private_download") or file_obj.get("url_private"), line 157
UrlOf(fo) == Or(fo.url_private_download, fo.url_private)

\* file_obj.get("name") or file_obj.get("title") or f"{file_id}.bin", line 158
NameOf(fo, file_id) == Or(fo.name, Or(fo.title, file_id \o <<".", "b", "i", "n">>))

\* pathlib.Path(name).suffix for a name without path separators: from the last
\* dot on, unless that dot is the first or the last character
Suffix(name) ==
  LET dots == Occurrences(<<".">>, name)
      j == CHOOSE i \in dots : \A k \in dots : k <= i
  IN  IF dots # {} /\ 1 < j /\ j < Len(name) THEN SubSeq(name, j, Len(name)) ELSE <<>>

\* pathlib.Path(name).suffix.lower(), line 169
ExtOf(name) == Lower(Suffix(name))

(* ------------------------ File Retrieval Adapter ----------------------- *)
\* redirect handling that also follows a 304
RedirectStatusesWith304 == {301, 302, 303, 304, 307, 308}

\* statuses of line 30
RedirectStatuses == {301, 302, 303, 307, 308}

\* Content-Type headers a response may carry; <<>> is no header (line 37)
TEXT_HTML == <<"t", "e", "x", "t", "/", "h", "t", "m", "l">>
ContentTypes == {<<>>, <<"a", "/", "p", "d", "f">>, TEXT_HTML, <<"T", "e", "x", "t", "/", "H", "T", "M", "L", ";", "x">>}

\* what one requests.get may produce: an exception (timeout, connection
\* error) or a response
Statuses == {200, 302, 304, 404}
Responses ==
  [exc : {FALSE}, status : Statuses, location : BOOLEAN, ct : ContentTypes]
  \cup [exc : {TRUE}, status : {200}, location : {FALSE}, ct : {<<>>}]

\* r.raise_for_status() raises for a 4xx or 5xx status only (line 34)
RaiseForStatus(status) == 400 <= status /\ status < 600

\* a download_slack_file that looks for text/html in the header as sent
DownloadSlackFileCaseSensitive(r1, r2) ==
  IF r1.exc THEN [gets |-> 1, status |-> 0, result |-> "transport_error"]
  ELSE
    LET follow == r1.status \in RedirectStatuses /\ r1.location
        r == IF follow THEN r2 ELSE r1
        gets == IF follow THEN 2 ELSE 1
    IN  IF r.exc THEN [gets |-> gets, status |-> 0, result |-> "transport_error"]
        ELSE IF RaiseForStatus(r.status)
          THEN [gets |-> gets, status |-> r.status, result |-> "http_error"]
        ELSE IF Contains(TEXT_HTML, r.ct)
          THEN [gets |-> gets, status |-> r.status, result |-> "html_error"]
        ELSE [gets |-> gets, status |-> r.status, result |-> "bytes"]

\* download_slack_file, lines 25-41: r1 answers the first GET, r2 the second
\* one when it is made.  gets counts the GETs, status is the final status.
DownloadSlackFile(r1, r2) ==
  IF r1.exc THEN [gets |-> 1, status |-> 0, result |-> "transport_error"]
  ELSE
    LET follow == r1.status \in RedirectStatuses /\ r1.location
        r == IF follow THEN r2 ELSE r1
        gets == IF follow THEN 2 ELSE 1
    IN  IF r.exc THEN [gets |-> gets, status |-> 0, result |-> "transport_error"]
        ELSE IF RaiseForStatus(r.status)
          THEN [gets |-> gets, status |-> r.status, result |-> "http_error"]
        ELSE IF Contains(TEXT_HTML, Lower(r.ct))
          THEN [gets |-> gets, status |-> r.status, result |-> "html_error"]
        ELSE [gets |-> gets, status |-> r.status, result |-> "bytes"]

\* no call of download_slack_file made on its own yet
NoDownloadCall ==
  [called |-> FALSE,
   first |-> [exc |-> TRUE, status |-> 200, location |-> FALSE, ct |-> <<>>],
   second |-> [exc |-> TRUE, status |-> 200, location |-> FALSE, ct |-> <<>>],
   out |-> [gets |-> 0, status |-> 0, result |-> "none"]]

\* what a call of download_slack_file may come to: "bytes" or the error raised
DownloadResults ==
  {DownloadSlackFile(r1, r2).result : r1 \in Responses, r2 \in Responses}

(* ------------------------- Issue Filing Adapter ------------------------ *)
\* the settings of lines 21-23
GithubSettings == {"GITHUB_TOKEN", "GITHUB_OWNER", "GITHUB_REPO"}

\* a create_github_issue that checks the token only
CreateGithubIssueTokenOnly(env, httpOk) ==
  IF "GITHUB_TOKEN" \notin env
    THEN [requests |-> 0, result |-> "missing_config"]
  ELSE IF ~httpOk THEN [requests |-> 1, result |-> "http_error"]
  ELSE [requests |-> 1, result |-> "ok"]

\* create_github_issue, lines 44-58: env is the set of settings that are set,
\* httpOk tells whether the POST and the parsing of its answer succeed
CreateGithubIssue(env, httpOk) ==
  IF ~(GithubSettings \subseteq env)
    THEN [requests |-> 0, result |-> "missing_config"]
  ELSE IF ~httpOk THEN [requests |-> 1, result |-> "http_error"]
  ELSE [requests |-> 1, result |-> "ok"]

NoIssue == [called |-> FALSE, title |-> <<>>, body |-> <<>>, requests |-> 0, result |-> "none"]

(* ------------------------------- events -------------------------------- *)
\* event.get("subtype"): NoSubtype is an absent subtype
NoSubtype == "none"

MessageEvent(bot, subtype, text, files) ==
  [type |-> "message", bot_id |-> bot, subtype |-> subtype, text |-> text,
   files |-> files, user |-> <<"W", "7">>, channel |-> <<"C", "4">>]

HomeEvent ==
  [type |-> "app_home_opened", bot_id |-> FALSE, subtype |-> NoSubtype, text |-> <<>>,
   files |-> <<>>, user |-> <<"W", "7">>, channel |-> <<"C", "4">>]

(* ------------------- on_message: classification, lines 83-126 ---------- *)
\* raw_text = (event.get("text") or "").strip(), line 88
RawText(e) == Strip(e.text)

\* lower_text = raw_text.lower(), line 89
LowerText(e) == Lower(RawText(e))

\* a delete test on the text as typed
DeleteCondCaseSensitive(e, b) ==
  Contains(Mention(b), RawText(e)) /\ EndsWith(RawText(e), DELETE)

\* the condition of line 91, for BOT_USER_ID = b
DeleteCond(e, b) ==
  Contains(Mention(b), RawText(e)) /\ EndsWith(LowerText(e), DELETE)

\* the condition of lines 99-103
IssueCond(e, b) ==
  \/ StartsWith(LowerText(e), ISSUE)
  \/ StartsWith(LowerText(e), AT_BOLTAPP_ISSUE)
  \/ /\ Contains(Mention(b), RawText(e))
     /\ StartsWith(LowerText(e), Mention(b) \o SP \o ISSUE)

\* cmd_text, lines 104-107
CmdText(e, b) ==
  IF StartsWith(LowerText(e), AT_BOLTAPP_ISSUE)
    THEN Strip(DropFirst(RawText(e), Len(AT_BOLTAPP)))
    ELSE Strip(RemoveFirst(RawText(e), Mention(b)))

\* issue_payload, line 108
IssuePayload(e, b) == Strip(DropFirst(CmdText(e, b), Len(ISSUE)))

\* title, lines 110-115
IssueTitle(e, b) ==
  LET payload == IssuePayload(e, b)
  IN  IF Contains(PIPE, payload) THEN Strip(SplitFirst(payload, PIPE)[1])
      ELSE Strip(payload)

\* body before line 125
IssueBodyPart(e, b) ==
  LET payload == IssuePayload(e, b)
  IN  IF Contains(PIPE, payload) THEN Strip(SplitFirst(payload, PIPE)[2])
      ELSE <<>>

\* body passed to create_github_issue, lines 125-126
IssueBody(e, b) ==
  IF IssueBodyPart(e, b) = <<>> THEN Attribution(e.user, e.channel)
  ELSE IssueBodyPart(e, b)

\* a bot check that looks at bot_id only
BotOriginBotIdOnly(e) == e.bot_id

\* the condition of lines 75-76
BotOrigin(e) == e.bot_id \/ e.subtype = "bot_message"

\* a handler without the empty-title test
TitleMissingNever(title) == FALSE

\* "not title", line 117
TitleMissing(title) == title = <<>>

\* the condition of line 206
QueryCond(e) == e.type = "message" /\ e.subtype = NoSubtype /\ e.text # <<>>

(* --------------------------------- state -------------------------------- *)
VARIABLES
  BOT_USER_ID,       \* line 60; <<>> is None
  INDEXED_FILE_IDS,  \* line 20
  whoAmI,            \* the identity auth_test reports
  GITHUB,            \* the settings of lines 21-23 that are set
  inv,               \* the handler invocation of each listener thread
  delivered,         \* events delivered so far
  indexCalls,        \* calls of index_slack_file_bytes per file id
  successReplies,    \* delivered "Saved ... and indexed" replies per file id
  failedIngests,     \* ingestions per file id that took the except branch
  authCalls,         \* calls of auth_test
  overlapped,        \* whether two invocations were ever in flight together
  lastDownload       \* the last call of download_slack_file made on its own

vars == <<BOT_USER_ID, INDEXED_FILE_IDS, whoAmI, GITHUB, inv, delivered,
          indexCalls, successReplies, failedIngests, authCalls, overlapped,
          lastDownload>>

\* a thread that has not run a handler yet
Idle ==
  [pc |-> "idle", ev |-> HomeEvent, idx |-> 0, calls |-> <<>>, posts |-> <<>>,
   issue |-> NoIssue, dl |-> "none", raised |-> ""]

Fresh(e, pc) == [Idle EXCEPT !.pc = pc, !.ev = e]

WithCall(r, name, arg) == [r EXCEPT !.calls = Append(@, <<name, arg>>)]

\* client.chat_postMessage(...): ok tells whether the call returns
WithPost(r, kind, f, ok) ==
  [r EXCEPT !.posts = Append(@, [kind |-> kind, file |-> f, ok |-> ok])]

\* the handler returns
Returned(r) == [r EXCEPT !.pc = "done"]

\* an exception of the call named by leaves the handler
Raised(r, by) == [r EXCEPT !.pc = "done", !.raised = by]

\* a chat_postMessage outside any try block, followed by return
PostThenReturn(r, kind, f, ok) ==
  IF ok THEN Returned(WithPost(r, kind, f, TRUE))
  ELSE Raised(WithPost(r, kind, f, FALSE), "chat_postMessage")

Busy(q) == inv[q].pc \notin {"idle", "done"}

\* a loop that goes on to the next reference after a file was processed
ContinueAfterFile(r) == [r EXCEPT !.pc = "files", !.idx = @ + 1]

\* the return of line 203, after the try statement of a file reference
ReturnAfterFile(r) == Returned(r)

\* lines 196-203: the failure reply of the except branch, then the return
PostFailure(r, f, ok) ==
  IF ok THEN ReturnAfterFile(WithPost(r, "failed_process", f, TRUE))
  ELSE Raised(WithPost(r, "failed_process", f, FALSE), "chat_postMessage")

(* ------------------------ on_message: the handlers ---------------------- *)
\* Delete handler, lines 92-97
DeleteHandler(r, delOk, postOk) ==
  LET c == WithCall(r, "delete_all_embeddings", <<>>)
  IN  IF ~delOk THEN Raised(c, "delete_all_embeddings")
      ELSE PostThenReturn(c, "deleted", <<>>, postOk)

\* FileIssue handler, lines 104-142
IssueHandler(r, b, env, httpOk, postOk, postOk2) ==
  LET title == IssueTitle(r.ev, b)
      out == CreateGithubIssue(env, httpOk)
      c == [WithCall(r, "create_github_issue", <<>>) EXCEPT
              !.issue = [called |-> TRUE, title |-> title, body |-> IssueBody(r.ev, b),
                         requests |-> out.requests, result |-> out.result]]
  IN  IF TitleMissing(title) THEN PostThenReturn(r, "usage", <<>>, postOk)
      ELSE IF out.result = "ok" /\ postOk
        THEN Returned(WithPost(c, "issue_created", <<>>, TRUE))
      ELSE IF out.result = "ok"
        THEN PostThenReturn(WithPost(c, "issue_created", <<>>, FALSE),
                            "issue_failed", <<>>, postOk2)
      ELSE PostThenReturn(c, "issue_failed", <<>>, postOk2)

\* Query handler, lines 206-220
QueryHandler(r, queryOk, postOk, postOk2) ==
  LET c == WithCall(r, "answer_query", <<>>)
  IN  IF ~QueryCond(r.ev) \/ Strip(r.ev.text) = <<>> THEN Returned(r)
      ELSE IF queryOk /\ postOk THEN Returned(WithPost(c, "answer", <<>>, TRUE))
      ELSE IF queryOk
        THEN PostThenReturn(WithPost(c, "answer", <<>>, FALSE),
                            "error_answering", <<>>, postOk2)
      ELSE PostThenReturn(c, "error_answering", <<>>, postOk2)

\* lines 83-145 and, for an event that is no file share, 206-220
DispatchHandler(r, b, env, ok, postOk, postOk2) ==
  IF DeleteCond(r.ev, b) THEN DeleteHandler(r, ok, postOk)
  ELSE IF IssueCond(r.ev, b) THEN IssueHandler(r, b, env, ok, postOk, postOk2)
  ELSE IF r.ev.subtype = "file_share" THEN [r EXCEPT !.pc = "files", !.idx = 1]
  ELSE QueryHandler(r, ok, postOk, postOk2)

\* a loop without the membership test of line 151
NextUnseenNoCheck(files, i, indexed) ==
  IF \E k \in i..Len(files) : files[k] # NoId
    THEN Min({k \in i..Len(files) : files[k] # NoId})
    ELSE Len(files) + 1

\* lines 146-152: the first reference from position i on that has an id which
\* is not in indexed; Len(files) + 1 when there is none
RECURSIVE NextUnseen(_, _, _)
NextUnseen(files, i, indexed) ==
  IF i > Len(files) THEN i
  ELSE IF files[i] = NoId \/ files[i] \in indexed THEN NextUnseen(files, i + 1, indexed)
  ELSE i

\* lines 146-176 from position r.idx up to the next blocking call's return:
\* the loop ends, files_info raises, a reference is rejected, or one is
\* accepted for ingestion
FileLoopHandler(r, indexed, infoOk, postOk) ==
  LET j == NextUnseen(r.ev.files, r.idx, indexed)
      f == r.ev.files[j]
      c == WithCall([r EXCEPT !.idx = j], "files_info", f)
      name == NameOf(FileObj(f), f)
      rejected(kind) ==
        IF postOk THEN [WithPost(c, kind, f, TRUE) EXCEPT !.idx = j + 1]
        ELSE Raised(WithPost(c, kind, f, FALSE), "chat_postMessage")
  IN  IF j > Len(r.ev.files) THEN QueryHandler(r, TRUE, TRUE, TRUE)
      ELSE IF ~infoOk THEN Raised(c, "files_info")
      ELSE IF UrlOf(FileObj(f)) = <<>> THEN rejected("no_url")
      ELSE IF ExtOf(name) \notin ALLOWED_EXTENSIONS THEN rejected("unsupported")
      ELSE [c EXCEPT !.pc = "ingest"]

\* the calls of the try block, lines 179-187, in order
IngestCalls == <<"download_slack_file", "write_bytes", "users_info", "index_slack_file_bytes">>

\* lines 178-189: dl is what download_slack_file comes to, failing names the
\* later call that raises ("" for none); the calls up to it are made
TryIngest(r, dl, failing) ==
  LET f == r.ev.files[r.idx]
      stop == IF dl # "bytes" THEN "download_slack_file" ELSE failing
      last == IF stop = "" THEN Len(IngestCalls)
              ELSE CHOOSE k \in 1..Len(IngestCalls) : IngestCalls[k] = stop
      made == [k \in 1..last |-> <<IngestCalls[k], f>>]
  IN  [rec |-> [r EXCEPT !.calls = @ \o made, !.dl = dl], failed |-> stop # ""]

\* an add that is reached on the except path too
AddIndexedAlways(indexed, f, failed) == indexed \cup {f}

\* INDEXED_FILE_IDS after the try block, line 189: the add is reached only
\* when no call before it raised
AddIndexed(indexed, f, failed) == IF failed THEN indexed ELSE indexed \cup {f}

(* -------------------------------- actions ------------------------------- *)
Bump(counter, f) == [counter EXCEPT ![f] = @ + 1]

Arrive(p) ==
  /\ ~Busy(p)
  /\ delivered < MaxEvents
  /\ delivered' = delivered + 1
  /\ overlapped' = (overlapped \/ \E q \in Procs : q # p /\ Busy(q))

\* _cache_bot_id up to its blocking call, lines 63-67
CacheBotId(p) ==
  /\ Arrive(p)
  /\ inv' = [inv EXCEPT ![p] =
               IF BOT_USER_ID # <<>> THEN Returned(Fresh(HomeEvent, "done"))
               ELSE Fresh(HomeEvent, "home_auth")]
  /\ UNCHANGED <<lastDownload, BOT_USER_ID, INDEXED_FILE_IDS, whoAmI, GITHUB, indexCalls,
                 successReplies, failedIngests, authCalls>>

\* _cache_bot_id: auth_test returns, lines 67-68
CacheBotIdAuth(p) ==
  /\ inv[p].pc = "home_auth"
  /\ BOT_USER_ID' = whoAmI
  /\ authCalls' = authCalls + 1
  /\ inv' = [inv EXCEPT ![p] = Returned(WithCall(@, "auth_test", <<>>))]
  /\ UNCHANGED <<lastDownload, INDEXED_FILE_IDS, whoAmI, GITHUB, delivered, indexCalls,
                 successReplies, failedIngests, overlapped>>

\* on_message up to its first blocking call, lines 71-80
OnMessage(p, e) ==
  /\ Arrive(p)
  /\ inv' = [inv EXCEPT ![p] =
               IF BotOrigin(e) THEN Returned(Fresh(e, "done"))
               ELSE IF BOT_USER_ID = <<>> THEN Fresh(e, "auth")
               ELSE Fresh(e, "dispatch")]
  /\ UNCHANGED <<lastDownload, BOT_USER_ID, INDEXED_FILE_IDS, whoAmI, GITHUB, indexCalls,
                 successReplies, failedIngests, authCalls>>

\* on_message: auth_test returns, lines 80-81
OnMessageAuth(p) ==
  /\ inv[p].pc = "auth"
  /\ BOT_USER_ID' = whoAmI
  /\ authCalls' = authCalls + 1
  /\ inv' = [inv EXCEPT ![p] = [WithCall(@, "auth_test", <<>>) EXCEPT !.pc = "dispatch"]]
  /\ UNCHANGED <<lastDownload, INDEXED_FILE_IDS, whoAmI, GITHUB, delivered, indexCalls,
                 successReplies, failedIngests, overlapped>>

\* a Delete handler that also forgets the ingested ids
IndexedClearedByDelete(indexed, r) ==
  IF \E k \in 1..Len(r.calls) : r.calls[k][1] = "delete_all_embeddings" THEN {}
  ELSE indexed

\* INDEXED_FILE_IDS after the handlers of lines 91-142 and 206-220, r being
\* the invocation when they are over: none of them assigns it
IndexedAfterDispatch(indexed, r) == indexed

\* on_message, lines 83-145 (and 206-220 for an event that is no file share)
Dispatch(p) ==
  /\ inv[p].pc = "dispatch"
  /\ \E ok, postOk, postOk2 \in BOOLEAN :
       inv' = [inv EXCEPT ![p] =
                 DispatchHandler(@, BOT_USER_ID, GITHUB, ok, postOk, postOk2)]
  /\ INDEXED_FILE_IDS' = IndexedAfterDispatch(INDEXED_FILE_IDS, inv'[p])
  /\ UNCHANGED <<lastDownload, BOT_USER_ID, whoAmI, GITHUB, delivered, indexCalls,
                 successReplies, failedIngests, authCalls, overlapped>>

\* on_message, the loop of lines 146-176 up to the next blocking call
FileLoop(p) ==
  /\ inv[p].pc = "files"
  /\ \E infoOk, postOk \in BOOLEAN :
       inv' = [inv EXCEPT ![p] = FileLoopHandler(@, INDEXED_FILE_IDS, infoOk, postOk)]
  /\ UNCHANGED <<lastDownload, BOT_USER_ID, INDEXED_FILE_IDS, whoAmI, GITHUB, delivered, indexCalls,
                 successReplies, failedIngests, authCalls, overlapped>>

\* on_message, lines 178-189 and, when the try block fails, 196-203
Ingest(p) ==
  /\ inv[p].pc = "ingest"
  /\ \E dl \in DownloadResults,
        failing \in {"", "write_bytes", "users_info", "index_slack_file_bytes"},
        postOk \in BOOLEAN :
       LET f == inv[p].ev.files[inv[p].idx]
           t == TryIngest(inv[p], dl, failing)
           indexed == <<"index_slack_file_bytes", f>> \in
                        {t.rec.calls[k] : k \in 1..Len(t.rec.calls)}
       IN  /\ indexCalls' = IF indexed THEN Bump(indexCalls, f) ELSE indexCalls
           /\ INDEXED_FILE_IDS' = AddIndexed(INDEXED_FILE_IDS, f, t.failed)
           /\ IF t.failed
                THEN /\ inv' = [inv EXCEPT ![p] =
                                  PostFailure(t.rec, f, postOk)]
                     /\ failedIngests' = Bump(failedIngests, f)
                ELSE /\ inv' = [inv EXCEPT ![p] = [t.rec EXCEPT !.pc = "reply"]]
                     /\ UNCHANGED failedIngests
  /\ UNCHANGED <<lastDownload, BOT_USER_ID, whoAmI, GITHUB, delivered, successReplies, authCalls,
                 overlapped>>

\* on_message, lines 191-203: the success reply after the id was added
Reply(p) ==
  /\ inv[p].pc = "reply"
  /\ \E postOk, postOk2 \in BOOLEAN :
       LET f == inv[p].ev.files[inv[p].idx]
       IN  IF postOk
             THEN /\ inv' = [inv EXCEPT ![p] =
                               ReturnAfterFile(WithPost(@, "saved", f, TRUE))]
                  /\ successReplies' = Bump(successReplies, f)
                  /\ UNCHANGED failedIngests
             ELSE /\ inv' = [inv EXCEPT ![p] =
                               PostFailure(WithPost(@, "saved", f, FALSE), f, postOk2)]
                  /\ failedIngests' = Bump(failedIngests, f)
                  /\ UNCHANGED successReplies
  /\ UNCHANGED <<lastDownload, BOT_USER_ID, INDEXED_FILE_IDS, whoAmI, GITHUB, delivered, indexCalls,
                 authCalls, overlapped>>

(* ---------------------------- specifications ---------------------------- *)
\* file references of the events of the concurrent specification
CoreFileLists == {<<F1>>, <<F1, F2>>, <<F3, F1>>}

\* events of the concurrent specification
CoreEvents(b) ==
  {MessageEvent(FALSE, NoSubtype, t, <<>>) :
     t \in {<<"h", "i">>, Mention(b) \o SP \o DELETE, ISSUE \o SP \o TitleT}}
  \cup {MessageEvent(FALSE, "file_share", <<>>, fl) : fl \in CoreFileLists}
  \cup {MessageEvent(TRUE, NoSubtype, <<"h", "i">>, <<>>)}

\* identity and settings of the concurrent specification
CoreBotIds == {<<"U", "1">>}
CoreConfigs == {GithubSettings}

InitWith(ids, configs) ==
  /\ BOT_USER_ID = <<>>
  /\ INDEXED_FILE_IDS = {}
  /\ whoAmI \in ids
  /\ GITHUB \in configs
  /\ inv = [p \in Procs |-> Idle]
  /\ delivered = 0
  /\ indexCalls = [f \in FileIds |-> 0]
  /\ successReplies = [f \in FileIds |-> 0]
  /\ failedIngests = [f \in FileIds |-> 0]
  /\ authCalls = 0
  /\ overlapped = FALSE
  /\ lastDownload = NoDownloadCall

Init == InitWith(CoreBotIds, CoreConfigs)

Next ==
  \E p \in Procs :
    \/ CacheBotId(p)
    \/ CacheBotIdAuth(p)
    \/ \E e \in CoreEvents(whoAmI) : OnMessage(p, e)
    \/ OnMessageAuth(p)
    \/ Dispatch(p)
    \/ FileLoop(p)
    \/ Ingest(p)
    \/ Reply(p)

\* handler invocations on the listener thread pool, any interleaving
Spec == Init /\ [][Next]_vars

\* file references of the events of the sequential specification
SeqFileLists ==
  {<<>>, <<F1>>, <<F2>>, <<F3>>, <<F4>>, <<F5>>, <<NoId, F1>>, <<F1, F1>>,
   <<F1, F2>>, <<F3, F1>>, <<F4, F2>>}

\* events of the sequential specification, for a bot identity b
SeqEvents(b) ==
  {MessageEvent(FALSE, NoSubtype, t, <<>>) : t \in AllTexts(b)}
  \cup {MessageEvent(FALSE, "file_share", t, fl) :
          t \in {<<>>, <<"h", "i">>, ISSUE \o SP \o TitleT, Mention(b) \o SP \o DELETE},
          fl \in SeqFileLists}
  \cup {MessageEvent(FALSE, "channel_join", t, <<>>) :
          t \in {<<"h", "i">>, Mention(b) \o SP \o DELETE}}
  \cup {MessageEvent(bot, st, t, fl) :
          bot \in BOOLEAN, st \in {NoSubtype, "file_share", "bot_message"},
          t \in {<<"h", "i">>, ISSUE \o SP \o TitleT, Mention(b) \o SP \o DELETE},
          fl \in {<<>>, <<F1>>}}

\* settings of the sequential specification: all set, one unset, none set
SeqConfigs ==
  {GithubSettings, {}} \cup {GithubSettings \ {x} : x \in GithubSettings}

InitSeq == InitWith(BotIds, SeqConfigs)

\* the thread that handles the events of the sequential specification
SeqProc == 1

NextSeq ==
  \/ delivered < MaxSeqEvents /\ CacheBotId(SeqProc)
  \/ CacheBotIdAuth(SeqProc)
  \/ delivered < MaxSeqEvents /\ \E e \in SeqEvents(whoAmI) : OnMessage(SeqProc, e)
  \/ OnMessageAuth(SeqProc)
  \/ Dispatch(SeqProc)
  \/ FileLoop(SeqProc)
  \/ Ingest(SeqProc)
  \/ Reply(SeqProc)

\* the events handled one after the other by one thread
SpecSeq == InitSeq /\ [][NextSeq]_vars

\* download_slack_file called with a URL whose first GET is answered by r1
\* and whose second GET, if it is made, by r2
DownloadCall(r1, r2) ==
  /\ lastDownload' = [called |-> TRUE, first |-> r1, second |-> r2,
                      out |-> DownloadSlackFile(r1, r2)]
  /\ UNCHANGED <<BOT_USER_ID, INDEXED_FILE_IDS, whoAmI, GITHUB, inv, delivered,
                 indexCalls, successReplies, failedIngests, authCalls, overlapped>>

InitDownload == InitWith(CoreBotIds, CoreConfigs)

NextDownload == \E r1, r2 \in Responses : DownloadCall(r1, r2)

\* the File Retrieval Adapter on its own, over every pair of answers
SpecDownload == InitDownload /\ [][NextDownload]_vars

(* -------------------------------- claims -------------------------------- *)
CallSet(r) == {r.calls[k] : k \in 1..Len(r.calls)}
CallNames(r) == {r.calls[k][1] : k \in 1..Len(r.calls)}
PostKinds(r) == {r.posts[k].kind : k \in 1..Len(r.posts)}
Done(p) == inv[p].pc = "done"

\* C1: over any interleaving of on_message invocations in which no ingestion
\* fails, index_slack_file_bytes is called at most once for each file id.
C1_IndexedAtMostOnce ==
  \A f \in FileIds : failedIngests[f] = 0 => indexCalls[f] <= 1

\* C2: when events are handled one after the other and the ingestion of a
\* file id succeeded, the run holds exactly one index_slack_file_bytes call
\* and one success reply for the id, and a later event that carries the id
\* makes no call and posts no message for it.
C2_SequentialIdempotence ==
  \A f \in FileIds :
    (f \in INDEXED_FILE_IDS /\ failedIngests[f] = 0 /\ ~Busy(SeqProc)) =>
      /\ indexCalls[f] = 1
      /\ successReplies[f] = 1
      /\ LET r == inv[SeqProc]
         IN  <<"index_slack_file_bytes", f>> \notin CallSet(r) =>
               /\ \A k \in 1..Len(r.calls) : r.calls[k][2] # f
               /\ \A k \in 1..Len(r.posts) : r.posts[k].file # f

\* the second of two file_share events for F1 has been skipped silently
C2_Witness ==
  /\ delivered = 2
  /\ Done(SeqProc)
  /\ inv[SeqProc].ev.subtype = "file_share"
  /\ inv[SeqProc].ev.files = <<F1>>
  /\ inv[SeqProc].ev.text = <<>>
  /\ ~inv[SeqProc].ev.bot_id
  /\ F1 \in INDEXED_FILE_IDS
  /\ inv[SeqProc].calls = <<>>
  /\ inv[SeqProc].posts = <<>>
  /\ indexCalls[F1] = 1
  /\ successReplies[F1] = 1

\* C3: INDEXED_FILE_IDS never loses an id, and it changes only in the step in
\* which index_slack_file_bytes has just returned for the file an invocation
\* is ingesting, by adding that file's id; every other step of every handler
\* leaves it unchanged.
C3_OnlySuccessfulIndexingAdds ==
  [][ /\ INDEXED_FILE_IDS \subseteq INDEXED_FILE_IDS'
      /\ INDEXED_FILE_IDS' # INDEXED_FILE_IDS =>
           \E p \in Procs :
             LET f == inv[p].ev.files[inv[p].idx]
             IN  /\ inv[p].pc = "ingest"
                 /\ inv'[p].pc = "reply"
                 /\ inv'[p].raised = ""
                 /\ inv'[p].dl = "bytes"
                 /\ inv'[p].calls[Len(inv'[p].calls)] = <<"index_slack_file_bytes", f>>
                 /\ indexCalls'[f] = indexCalls[f] + 1
                 /\ INDEXED_FILE_IDS' = INDEXED_FILE_IDS \cup {f}
    ]_vars

\* an id has been added and, in the same run, a failed ingestion and a
\* rejected reference have left the set alone
C3_Witness ==
  /\ INDEXED_FILE_IDS = {F1}
  /\ failedIngests[F1] > 0
  /\ \E p \in Procs : inv[p].pc = "reply" /\ inv[p].ev.files[inv[p].idx] = F1
  /\ \E p \in Procs : Done(p) /\ "unsupported" \in PostKinds(inv[p])

\* C4: no exception of a collaborator call (delete_all_embeddings, files_info,
\* create_github_issue, download, indexing, answer_query) leaves on_message.
C4_NoExceptionEscapes ==
  \A p \in Procs : inv[p].raised \in {"", "chat_postMessage"}

\* C5: a step that hands a bot-origin event (bot_id present or subtype
\* bot_message) to on_message ends the invocation at once: nothing is posted,
\* no collaborator is called, and BOT_USER_ID, INDEXED_FILE_IDS and the call
\* counters are unchanged.
C5_BotOriginIgnored ==
  [][ \A p \in Procs :
        ( /\ inv'[p] # inv[p]
          /\ inv'[p].ev.type = "message"
          /\ inv'[p].ev.bot_id \/ inv'[p].ev.subtype = "bot_message" ) =>
          /\ inv'[p].pc = "done"
          /\ inv'[p].raised = ""
          /\ inv'[p].posts = <<>>
          /\ inv'[p].calls = <<>>
          /\ BOT_USER_ID' = BOT_USER_ID
          /\ INDEXED_FILE_IDS' = INDEXED_FILE_IDS
          /\ authCalls' = authCalls
          /\ indexCalls' = indexCalls
    ]_vars

\* a bot_message file share whose text is the delete command was ignored
\* before the bot identity was ever looked up
C5_Witness ==
  /\ delivered = 1
  /\ Done(SeqProc)
  /\ inv[SeqProc].ev.subtype = "bot_message"
  /\ ~inv[SeqProc].ev.bot_id
  /\ inv[SeqProc].ev.text = Mention(whoAmI) \o SP \o DELETE
  /\ inv[SeqProc].ev.files = <<F1>>
  /\ inv[SeqProc].posts = <<>>
  /\ inv[SeqProc].calls = <<>>
  /\ BOT_USER_ID = <<>>

\* the rules of the Event Classifier, in priority order
RuleDelete(e, b) ==
  Contains(Mention(b), e.text) /\ EndsWith(Lower(Strip(e.text)), DELETE)
RuleIssue(e, b) ==
  \/ StartsWith(Lower(Strip(e.text)), ISSUE)
  \/ /\ StartsWith(Strip(e.text), Mention(b))
     /\ StartsWith(Lower(Strip(DropFirst(Strip(e.text), Len(Mention(b))))), ISSUE)
RuleUpload(e) == e.subtype = "file_share" /\ Len(e.files) >= 1
RuleQuery(e) == e.subtype = NoSubtype /\ Strip(e.text) # <<>>
Decision(e, b) ==
  IF e.bot_id \/ e.subtype = "bot_message" THEN "Ignore"
  ELSE IF RuleDelete(e, b) THEN "Delete"
  ELSE IF RuleIssue(e, b) THEN "FileIssue"
  ELSE IF RuleUpload(e) THEN "FileUpload"
  ELSE IF RuleQuery(e) THEN "Query"
  ELSE "Ignore"

\* the actions an invocation has invoked
Acted(r) ==
  {"Delete" : x \in {1 : y \in CallNames(r) \cap {"delete_all_embeddings"}}}
  \cup {"FileIssue" : x \in {1 : y \in (CallNames(r) \cap {"create_github_issue"})
                                     \cup (PostKinds(r) \cap {"usage"})}}
  \cup {"FileUpload" : x \in {1 : y \in CallNames(r) \cap
           {"files_info", "download_slack_file", "write_bytes", "users_info",
            "index_slack_file_bytes"}}}
  \cup {"Query" : x \in {1 : y \in CallNames(r) \cap {"answer_query"}}}

\* C6: for every handled message event the actions invoked are those of the
\* first rule it matches in the order Ignore(bot) > Delete > FileIssue >
\* FileUpload > Query > Ignore: exactly that action for Delete, FileIssue and
\* Query, at most file ingestion for FileUpload, and none for Ignore.
C6_FirstMatchWins ==
  \A p \in Procs :
    (Done(p) /\ inv[p].ev.type = "message") =>
      LET d == Decision(inv[p].ev, whoAmI)
      IN  /\ Cardinality(Acted(inv[p])) <= 1
          /\ d \in {"Delete", "FileIssue", "Query"} => Acted(inv[p]) = {d}
          /\ d = "FileUpload" => Acted(inv[p]) \subseteq {"FileUpload"}
          /\ d = "Ignore" => Acted(inv[p]) = {}

\* C7: a non-bot event whose trimmed text is the bot mention token followed by
\* "issue T" with a non-empty title T is handed to the Issue Filing Adapter
\* with title T and is not answered as a query.
C7_MentionIssueFiled ==
  \A p \in Procs :
    LET e == inv[p].ev
        prefix == Mention(whoAmI) \o SP \o ISSUE \o SP
        T == Strip(DropFirst(Strip(e.text), Len(prefix)))
    IN  ( /\ Done(p) /\ e.type = "message"
          /\ ~e.bot_id /\ e.subtype # "bot_message"
          /\ StartsWith(Strip(e.text), prefix)
          /\ T # <<>> /\ ~Contains(PIPE, T) /\ ~EndsWith(Lower(T), DELETE) ) =>
          /\ inv[p].issue.called
          /\ inv[p].issue.title = T
          /\ "answer_query" \notin CallNames(inv[p])

\* the Delete handler, and no other, has run
DeleteDecided(r) ==
  /\ "delete_all_embeddings" \in CallNames(r)
  /\ CallNames(r) \subseteq {"auth_test", "delete_all_embeddings"}
  /\ r.raised # "delete_all_embeddings" =>
       Len(r.posts) = 1 /\ r.posts[1].kind = "deleted"

\* C8: a non-bot event whose trimmed text is the bot mention token (as
\* f"<@{BOT_USER_ID}>" spells it) followed by the word delete in any letter
\* case, with any whitespace before, between and after them, is classified
\* Delete: delete_all_embeddings is invoked, nothing else is, and the
\* confirmation is posted when it returns.
C8_MentionDeleteAnyCase ==
  \A p \in Procs :
    LET e == inv[p].ev
        t == Strip(e.text)
    IN  ( /\ Done(p) /\ e.type = "message"
          /\ ~e.bot_id /\ e.subtype # "bot_message"
          /\ StartsWith(t, Mention(whoAmI))
          /\ Lower(Strip(DropFirst(t, Len(Mention(whoAmI))))) = DELETE ) =>
          DeleteDecided(inv[p])

\* " <@U1>  DeLETE " was handled for the upper-case identity: bulk delete
\* invoked, confirmation posted
C8_Witness ==
  \E p \in Procs :
    /\ Done(p)
    /\ whoAmI = <<"U", "1">>
    /\ inv[p].ev.text =
         SP \o Mention(whoAmI) \o SP \o SP \o <<"D", "e", "L", "E", "T", "E">> \o SP
    /\ ~inv[p].ev.bot_id
    /\ <<"delete_all_embeddings", <<>>>> \in CallSet(inv[p])
    /\ inv[p].posts = <<[kind |-> "deleted", file |-> <<>>, ok |-> TRUE]>>
    /\ inv[p].raised = ""

\* the event was handed to the FileIssue branch of lines 99-142
IssueDispatched(e, b) ==
  /\ e.type = "message" /\ ~e.bot_id /\ e.subtype # "bot_message"
  /\ ~DeleteCond(e, b)
  /\ IssueCond(e, b)

\* the text after a leading bot mention and the "issue" keyword, trimmed
PayloadOf(e, b) ==
  LET t == Strip(e.text)
      u == IF StartsWith(t, Mention(b)) THEN Strip(DropFirst(t, Len(Mention(b)))) ELSE t
  IN  Strip(DropFirst(u, Len(ISSUE)))

\* C9: when the Issue Filing Adapter is called, the payload after the "issue"
\* keyword has been split at its first pipe only: the title is the trimmed
\* part before it and the body the trimmed part after it, later pipes
\* included; with no pipe the title is the whole trimmed payload, and with no
\* pipe or an empty part after it the body is the attribution string naming
\* the author and the channel.
C9_SplitAtFirstPipe ==
  \A p \in Procs :
    (Done(p) /\ inv[p].issue.called) =>
      LET e == inv[p].ev
          P == PayloadOf(e, whoAmI)
          pipes == {k \in 1..Len(P) : P[k] = "|"}
          k1 == CHOOSE k \in pipes : \A j \in pipes : k <= j
          after == Strip(SubSeq(P, k1 + 1, Len(P)))
          attribution == Attribution(e.user, e.channel)
      IN  /\ IssueDispatched(e, whoAmI)
          /\ Contains(e.user, attribution) /\ Contains(e.channel, attribution)
          /\ IF pipes = {}
               THEN /\ inv[p].issue.title = P
                    /\ inv[p].issue.body = attribution
               ELSE /\ inv[p].issue.title = Strip(SubSeq(P, 1, k1 - 1))
                    /\ inv[p].issue.body = IF after = <<>> THEN attribution ELSE after

\* "issue T|B|C" was filed with title T and body B|C
C9_Witness ==
  \E p \in Procs :
    /\ Done(p)
    /\ inv[p].ev.text = ISSUE \o SP \o TitleT \o PIPE \o BodyB \o PIPE \o BodyC
    /\ inv[p].issue.called
    /\ inv[p].issue.title = TitleT
    /\ inv[p].issue.body = BodyB \o PIPE \o BodyC

\* C10: when an event handed to the FileIssue branch has nothing, only
\* whitespace, or only a pipe and a body after the keyword, the handler makes
\* one post, the usage message, and create_github_issue is not called.
C10_EmptyTitleUsage ==
  \A p \in Procs :
    LET e == inv[p].ev
        P == PayloadOf(e, whoAmI)
    IN  ( /\ Done(p)
          /\ IssueDispatched(e, whoAmI)
          /\ P = <<>> \/ P[1] = "|" ) =>
          /\ Len(inv[p].posts) = 1
          /\ inv[p].posts[1].kind = "usage"
          /\ ~inv[p].issue.called
          /\ "create_github_issue" \notin CallNames(inv[p])

\* "issue |B" was answered with the usage message and nothing was filed
C10_Witness ==
  \E p \in Procs :
    /\ Done(p)
    /\ inv[p].ev.text = ISSUE \o SP \o PIPE \o BodyB
    /\ ~inv[p].ev.bot_id /\ inv[p].ev.subtype = NoSubtype
    /\ inv[p].posts = <<[kind |-> "usage", file |-> <<>>, ok |-> TRUE]>>
    /\ ~inv[p].issue.called
    /\ CallNames(inv[p]) \subseteq {"auth_test"}

\* the posts of an invocation
PostSet(r) == {r.posts[k] : k \in 1..Len(r.posts)}

\* a reference the validation of the spec accepts: it has a download URL and
\* its declared name ends in .pdf or .docx, whatever the letter case
ValidRef(f) ==
  /\ f # NoId
  /\ UrlOf(FileObj(f)) # <<>>
  /\ \/ EndsWith(Lower(NameOf(FileObj(f), f)), <<".", "p", "d", "f">>)
     \/ EndsWith(Lower(NameOf(FileObj(f), f)), <<".", "d", "o", "c", "x">>)

\* C11: when the handler of a file_share event is over and it reported a
\* failure of downloading, saving or indexing for one reference, every later
\* valid reference of the event that is still not ingested was at least
\* taken up (files_info was called for it): the failure did not end the loop.
C11_FailureDoesNotAbortOthers ==
  LET r == inv[SeqProc]
      files == r.ev.files
  IN  (Done(SeqProc) /\ r.raised = "") =>
        \A i, j \in 1..Len(files) :
          ( /\ i < j
            /\ [kind |-> "failed_process", file |-> files[i], ok |-> TRUE] \in PostSet(r)
            /\ ValidRef(files[j])
            /\ files[j] # files[i]
            /\ files[j] \notin INDEXED_FILE_IDS )
          => <<"files_info", files[j]>> \in CallSet(r)

\* a reference the validation of the spec rejects
Rejectable(f) == f # NoId /\ ~ValidRef(f)

\* files_info was called for f and returned
InfoReturned(r, f) ==
  /\ <<"files_info", f>> \in CallSet(r)
  /\ ~(r.raised = "files_info" /\ r.calls[Len(r.calls)] = <<"files_info", f>>)

\* the rejection messages of lines 161-167 and 170-176
RejectionKinds == {"no_url", "unsupported"}

\* C12: after every step, a reference without download URL or with an
\* extension other than .pdf/.docx that the handler has looked up has a
\* rejection message, no download, save or indexing call, is not in
\* INDEXED_FILE_IDS and was never indexed; the step that posts the rejection
\* leaves INDEXED_FILE_IDS unchanged; and once the handler is over without an
\* exception, every later reference was taken up unless it has no id, was
\* ingested already, or a reference between the two was processed.
C12_RejectedNeverIngested ==
  [][LET r == inv'[SeqProc]
         files == r.ev.files
     IN  \A k \in 1..Len(files) :
           (Rejectable(files[k]) /\ InfoReturned(r, files[k])) =>
             /\ \E post \in PostSet(r) :
                  post.file = files[k] /\ post.kind \in RejectionKinds
             /\ \A n \in 1..Len(IngestCalls) : <<IngestCalls[n], files[k]>> \notin CallSet(r)
             /\ files[k] \notin INDEXED_FILE_IDS'
             /\ indexCalls'[files[k]] = 0
             /\ (Len(r.posts) > Len(inv[SeqProc].posts) /\ r.idx = k + 1)
                  => INDEXED_FILE_IDS' = INDEXED_FILE_IDS
             /\ (r.pc = "done" /\ r.raised = "") =>
                  \A j \in (k + 1)..Len(files) :
                    \/ files[j] = NoId
                    \/ files[j] \in INDEXED_FILE_IDS'
                    \/ <<"files_info", files[j]>> \in CallSet(r)
                    \/ \E m \in (k + 1)..(j - 1) :
                         <<"download_slack_file", files[m]>> \in CallSet(r)
    ]_vars

\* a text file is rejected and the PDF after it in the same event is ingested
C12_Witness ==
  /\ delivered = 1
  /\ Done(SeqProc)
  /\ inv[SeqProc].ev.files = <<F3, F1>>
  /\ [kind |-> "unsupported", file |-> F3, ok |-> TRUE] \in PostSet(inv[SeqProc])
  /\ <<"download_slack_file", F3>> \notin CallSet(inv[SeqProc])
  /\ INDEXED_FILE_IDS = {F1}
  /\ indexCalls[F1] = 1
  /\ indexCalls[F3] = 0

\* the success statuses of HTTP
SuccessStatus(status) == 200 <= status /\ status < 300

\* C13: a call of download_slack_file that returns the body had a final
\* response with a success status; every other final status, a redirect
\* status without Location header included, makes it raise.
C13_BytesOnlyOnSuccess ==
  (lastDownload.called /\ lastDownload.out.result = "bytes")
    => SuccessStatus(lastDownload.out.status)

\* the response the adapter's result is taken from: the second one exactly when
\* the first is a redirect (301/302/303/307/308) that carries a Location header
FollowUp(r1) ==
  ~r1.exc /\ r1.status \in {301, 302, 303, 307, 308} /\ r1.location

\* C14: a call of download_slack_file makes one or two GETs, and two exactly
\* when the first response has status 301/302/303/307/308 and a Location
\* header.
C14_AtMostOneFollowUp ==
  lastDownload.called =>
    /\ lastDownload.out.gets \in {1, 2}
    /\ (lastDownload.out.gets = 2) <=> FollowUp(lastDownload.first)

\* a 302 with Location is followed once, and the second answer, itself a
\* redirect with Location, is not followed again
C14_Witness ==
  /\ lastDownload.called
  /\ lastDownload.first.status = 302 /\ lastDownload.first.location
  /\ ~lastDownload.second.exc
  /\ lastDownload.second.status = 302 /\ lastDownload.second.location
  /\ lastDownload.out.gets = 2

\* the final response of a call answered by r1 and then r2
FinalResponse(r1, r2) == IF FollowUp(r1) THEN r2 ELSE r1

\* a Content-Type that contains text/html in some letter case
IsHtml(ct) == Contains(<<"t", "e", "x", "t", "/", "h", "t", "m", "l">>, Lower(ct))

\* C15: (a) download_slack_file fails with the HTML-payload error for every
\* pair of answers whose final response has a success status and a
\* Content-Type containing text/html in any letter case; (b) an invocation
\* whose download failed that way made no save and no indexing call for the
\* file, did not add its id to INDEXED_FILE_IDS and posted the per-file
\* failure reply.
C15_HtmlPayloadRejected ==
  LET r == inv[SeqProc]
      f == r.ev.files[r.idx]
  IN  (r.pc = "done" /\ r.dl # "none") =>
        /\ \A r1, r2 \in Responses :
             LET final == FinalResponse(r1, r2)
             IN  (~r1.exc /\ ~final.exc /\ SuccessStatus(final.status) /\ IsHtml(final.ct))
                   => DownloadSlackFile(r1, r2).result = "html_error"
        /\ r.dl = "html_error" =>
             /\ <<"download_slack_file", f>> \in CallSet(r)
             /\ <<"write_bytes", f>> \notin CallSet(r)
             /\ <<"index_slack_file_bytes", f>> \notin CallSet(r)
             /\ f \notin INDEXED_FILE_IDS
             /\ \E post \in PostSet(r) : post.kind = "failed_process" /\ post.file = f
             /\ "saved" \notin PostKinds(r)

\* an upload whose download came back as an HTML page
C15_Witness ==
  /\ Done(SeqProc)
  /\ inv[SeqProc].ev.files = <<F1>>
  /\ inv[SeqProc].dl = "html_error"
  /\ [kind |-> "failed_process", file |-> F1, ok |-> TRUE] \in PostSet(inv[SeqProc])
  /\ INDEXED_FILE_IDS = {}
  /\ "html_error" =
       DownloadSlackFile([exc |-> FALSE, status |-> 200, location |-> FALSE,
                          ct |-> <<"T", "e", "x", "t", "/", "H", "T", "M", "L", ";", "x">>],
                         [exc |-> TRUE, status |-> 200, location |-> FALSE, ct |-> <<>>]).result

\* one of the three tracker settings is unset
SettingMissing ==
  \E x \in {"GITHUB_TOKEN", "GITHUB_OWNER", "GITHUB_REPO"} : x \notin GITHUB

\* C16: with a tracker setting unset, a call of create_github_issue fails with
\* the missing-configuration error and makes no HTTP request, and the handler
\* that made it ends with the failure reply, no confirmation and no exception
\* of the adapter; an invocation of the Delete, FileUpload or Query path makes
\* no such call and posts no issue failure.
C16_MissingConfigFailsOnlyFileIssue ==
  LET r == inv[SeqProc]
  IN  SettingMissing =>
        /\ r.issue.called =>
             /\ IssueDispatched(r.ev, BOT_USER_ID)
             /\ r.issue.result = "missing_config"
             /\ r.issue.requests = 0
             /\ r.pc = "done" =>
                  /\ \E post \in PostSet(r) : post.kind = "issue_failed"
                  /\ "issue_created" \notin PostKinds(r)
                  /\ r.raised \in {"", "chat_postMessage"}
        /\ ~r.issue.called =>
             /\ r.issue = NoIssue
             /\ "create_github_issue" \notin CallNames(r)
             /\ "issue_failed" \notin PostKinds(r)
             /\ r.raised # "create_github_issue"

\* with the repository owner unset, a PDF is ingested and the issue command
\* that follows gets the failure reply
C16_Witness ==
  /\ GITHUB = {"GITHUB_TOKEN", "GITHUB_REPO"}
  /\ delivered = 2
  /\ INDEXED_FILE_IDS = {F1}
  /\ successReplies[F1] = 1
  /\ Done(SeqProc)
  /\ inv[SeqProc].issue.called
  /\ inv[SeqProc].issue.result = "missing_config"
  /\ inv[SeqProc].posts = <<[kind |-> "issue_failed", file |-> <<>>, ok |-> TRUE]>>

\* C17: over any interleaving of app_home_opened and message handler
\* invocations, auth_test is called at most once.
C17_AuthTestAtMostOnce == authCalls <= 1

\* the file ids the calls and posts of an invocation are about
Touched(r) ==
  {r.calls[k][2] : k \in 1..Len(r.calls)} \cup {r.posts[k].file : k \in 1..Len(r.posts)}

\* the position of the first reference files_info was called for
FirstLookedUp(r) ==
  Min({k \in 1..Len(r.ev.files) : <<"files_info", r.ev.files[k]>> \in CallSet(r)})

\* C18: once the handler has looked up the first unseen reference of a
\* file_share event, whether it then ingests it, fails on it or rejects it, no
\* call and no message is about a later reference with another id.
C18_OnlyFirstUnseenTouched ==
  LET r == inv[SeqProc]
      files == r.ev.files
  IN  "files_info" \in CallNames(r) =>
        \A j \in (FirstLookedUp(r) + 1)..Len(files) :
          files[j] # files[FirstLookedUp(r)] => files[j] \notin Touched(r)

\* the calls of download_slack_file an invocation made
DownloadCalls(r) == {k \in 1..Len(r.calls) : r.calls[k][1] = "download_slack_file"}

\* C18, amended: the handler returns after the first unseen reference that
\* passes the URL and extension validation, whether its ingestion succeeded or
\* failed: it makes at most one download call, and no call and no message is
\* about a reference that comes after the downloaded one and has an id not
\* met up to there.  References rejected before it are not counted: the loop
\* goes on after a rejection.
C18_ReturnsAfterFirstAccepted ==
  LET r == inv[SeqProc]
      files == r.ev.files
  IN  /\ Cardinality(DownloadCalls(r)) <= 1
      /\ \A k \in 1..Len(files) :
           <<"download_slack_file", files[k]>> \in CallSet(r) =>
             \A j \in (k + 1)..Len(files) :
               files[j] \notin {files[m] : m \in 1..k} => files[j] \notin Touched(r)
      /\ (r.pc = "done" /\ DownloadCalls(r) # {}) =>
           r.calls[Len(r.calls)][2] = r.calls[Min(DownloadCalls(r))][2]

\* a PDF is ingested and the DOCX after it in the same event is left alone
C18_Witness ==
  /\ delivered = 1
  /\ Done(SeqProc)
  /\ inv[SeqProc].ev.files = <<F1, F2>>
  /\ inv[SeqProc].posts = <<[kind |-> "saved", file |-> F1, ok |-> TRUE]>>
  /\ INDEXED_FILE_IDS = {F1}
  /\ F2 \notin Touched(inv[SeqProc])
  /\ indexCalls[F2] = 0

\* C19: once the handler is over, every id in INDEXED_FILE_IDS has had its
\* success reply posted, also when the chat_postMessage of the success reply
\* raised after the indexing succeeded.
C19_IndexedOnlyIfSuccessReplied ==
  Done(SeqProc) => \A f \in INDEXED_FILE_IDS : successReplies[f] >= 1

\* the invocations that call delete_all_embeddings in the step
Deleting(p) ==
  /\ "delete_all_embeddings" \in CallNames(inv'[p])
  /\ "delete_all_embeddings" \notin CallNames(inv[p])

\* the invocations that call files_info for f in the step
LookingUp(p, f) ==
  /\ <<"files_info", f>> \in CallSet(inv'[p])
  /\ <<"files_info", f>> \notin CallSet(inv[p])

\* C20: a step in which the Delete handler runs leaves INDEXED_FILE_IDS
\* unchanged and no step removes an id from it; the handler looks up only
\* references whose id is not in INDEXED_FILE_IDS, so a file_share event for an
\* id ingested before the delete is skipped; and as long as no two invocations
\* overlapped, an ingested id is never indexed again.
C20_DeleteKeepsIngestedIds ==
  [][/\ INDEXED_FILE_IDS \subseteq INDEXED_FILE_IDS'
     /\ \A p \in Procs : Deleting(p) => INDEXED_FILE_IDS' = INDEXED_FILE_IDS
     /\ \A p \in Procs : \A f \in FileIds :
          LookingUp(p, f) => f \notin INDEXED_FILE_IDS
     /\ ~overlapped' =>
          \A f \in INDEXED_FILE_IDS : indexCalls'[f] = indexCalls[f]
    ]_vars

\* F1 was ingested by the first event and the delete command that followed has
\* been carried out (its invocation made no auth_test call, so it was not the
\* first); the third event shares F1 again and its loop is about to test the id
C20_Witness ==
  /\ delivered = 3
  /\ ~overlapped
  /\ INDEXED_FILE_IDS = {F1}
  /\ indexCalls[F1] = 1
  /\ \E p, q \in Procs :
       /\ Done(p)
       /\ inv[p].calls = <<<<"delete_all_embeddings", <<>>>>>>
       /\ "deleted" \in PostKinds(inv[p])
       /\ inv[q].pc = "files"
       /\ inv[q].ev.files = <<F1>>
       /\ inv[q].calls = <<>>

====
